---- MODULE Spec2Model ----
(***************************************************************************)
(* Model of the skywalker broadcast relay: the publisher signaler          *)
(* (internal/broadcast/publisher/publisher.go), the subscriber signaler    *)
(* (internal/broadcast/subscriber) and the session registry (a sync.Map)   *)
(* they share.                                                             *)
(*                                                                         *)
(* Strings that the code concatenates (device ids, session keys, topics)   *)
(* are sequences of one-character strings, so that concatenation and       *)
(* strconv.Itoa are computed and not assumed injective.                    *)
(***************************************************************************)
EXTENDS Integers, Sequences, FiniteSets, Bags, TLC

(***************************************************************************)
(* Bounds of the model.                                                    *)
(***************************************************************************)
MaxOffers == 2
\* broker messages delivered to the publisher's handler

NumHandlers == 2
\* handler invocations of the MQTT client that may be running at once

NumConns == 2
\* web-socket connections accepted by the subscriber endpoint

MaxFrames == 4
\* frames a viewer writes on one web-socket

MaxGather == 1
\* ICE candidates a fan-out peer gathers locally

(***************************************************************************)
(* Program constants.                                                      *)
(***************************************************************************)
TrackSource_DRONE == 0
TrackSource_MONITOR == 1
CandidateChanCap == 2

Handlers == 1..NumHandlers
Conns == 1..NumConns

NoTrack == 0

Digits == <<"0", "1", "2", "3", "4", "5", "6", "7", "8", "9">>

RECURSIVE Itoa(_)
Itoa(n) ==
    IF n < 0 THEN <<"-">> \o Itoa(0 - n)
    ELSE IF n < 10 THEN <<Digits[n + 1]>>
    ELSE Itoa(n \div 10) \o <<Digits[(n % 10) + 1]>>

(***************************************************************************)
(* Inputs.                                                                 *)
(***************************************************************************)
DeviceIds == {<<"a">>}
PubTrackSources == {TrackSource_DRONE, TrackSource_MONITOR}
SubTrackSources == {TrackSource_DRONE, TrackSource_MONITOR, 2}

\* An MQTT payload: ok = FALSE is a payload proto.Unmarshal rejects.
Malformed == [ok |-> FALSE, id |-> <<>>, ts |-> 0]
Payloads == {Malformed} \cup [ok : {TRUE}, id : DeviceIds, ts : PubTrackSources]

AnswerTopicPrefix == <<"p">>

(***************************************************************************)
(* The session registry: sync.Map from session key to relay track, kept    *)
(* as the set of its entries.                                              *)
(***************************************************************************)
Loaded(m, k) == \E e \in m : e.key = k

Load(m, k) == IF Loaded(m, k) THEN (CHOOSE e \in m : e.key = k).track ELSE NoTrack

MapAfterLoadAndDelete(m, k) == {e \in m : e.key # k}

\* The map after Load(k): Load reads and leaves every entry.
MapAfterLoad(m, k) == m

StoreKeepsOld(m, k, v) == m \cup {[key |-> k, track |-> v]}

Store(m, k, v) == {e \in m : e.key # k} \cup {[key |-> k, track |-> v]}

PubSessionIDNoSource(id, ts) == id

PubSessionID(id, ts) == id \o Itoa(ts)

registerSessionIfAbsent(m, id, ts, videoTrack) ==
    IF Loaded(m, PubSessionID(id, ts)) THEN m
    ELSE Store(m, PubSessionID(id, ts), videoTrack)

registerSession(m, id, ts, videoTrack) == Store(m, PubSessionID(id, ts), videoTrack)

AnswerTopicStatic(id, ts) == AnswerTopicPrefix

AnswerTopic(id, ts) == AnswerTopicPrefix \o <<"/">> \o id \o <<"/">> \o Itoa(ts)

(***************************************************************************)
(* Viewer-side inputs.                                                     *)
(***************************************************************************)
NoMeta == [nil |-> TRUE, id |-> <<>>, ts |-> 0]
EmptyIdMeta == [nil |-> FALSE, id |-> <<>>, ts |-> 0]
ValidMetas == [nil : {FALSE}, id : DeviceIds, ts : SubTrackSources]
BadMetas == {NoMeta, EmptyIdMeta}

EnvIds == {"e1"}
Cands == {"c1", "c2"}

\* Go's zero value of incomingMessage.
ZeroMsg == [event |-> "", id |-> "", dataOk |-> FALSE, meta |-> NoMeta,
            bodyOk |-> FALSE, cand |-> ""]

\* dataOk: msg.Data decodes (json.Unmarshal into the event's payload type);
\* bodyOk: the inner JSON string (sdp or candidate) decodes.
OfferFrames ==
    [event : {"video-offer"}, id : EnvIds, dataOk : {FALSE}, meta : {NoMeta},
     bodyOk : {FALSE}, cand : {""}]
    \cup [event : {"video-offer"}, id : EnvIds, dataOk : {TRUE}, meta : BadMetas,
          bodyOk : {TRUE}, cand : {""}]
    \cup [event : {"video-offer"}, id : EnvIds, dataOk : {TRUE}, meta : ValidMetas,
          bodyOk : BOOLEAN, cand : {""}]

CandidateFrames ==
    [event : {"new-ice-candidate"}, id : EnvIds, dataOk : {FALSE}, meta : {NoMeta},
     bodyOk : {FALSE}, cand : {""}]
    \cup [event : {"new-ice-candidate"}, id : EnvIds, dataOk : {TRUE}, meta : BadMetas,
          bodyOk : {TRUE}, cand : {""}]
    \cup [event : {"new-ice-candidate"}, id : EnvIds, dataOk : {TRUE}, meta : ValidMetas,
          bodyOk : {FALSE}, cand : {""}]
    \cup [event : {"new-ice-candidate"}, id : EnvIds, dataOk : {TRUE}, meta : ValidMetas,
          bodyOk : {TRUE}, cand : Cands]

OtherFrames ==
    [event : {"ping"}, id : EnvIds, dataOk : {TRUE}, meta : {NoMeta},
     bodyOk : {TRUE}, cand : {""}]

\* A frame that is not a JSON envelope: wsjson.Read fails on it.
GarbageFrames ==
    [event : {"garbage"}, id : {""}, dataOk : {FALSE}, meta : {NoMeta},
     bodyOk : {FALSE}, cand : {""}]

Frames == OfferFrames \cup CandidateFrames \cup OtherFrames \cup GarbageFrames

SubSessionIDSourceFirst(id, ts) == Itoa(ts) \o id

SubSessionIDDroneOnly(id, ts) == id \o Itoa(TrackSource_DRONE)

SubSessionID(id, ts) == id \o Itoa(ts)

(***************************************************************************)
(* State.                                                                  *)
(***************************************************************************)
VARIABLES
    orderMatters,   \* MQTT client option: handlers run one at a time
    hpc,            \* position of each publisher handler invocation
    hmsg,           \* the payload it handles
    hseq,           \* its place in the broker's delivery order
    htrack,         \* videoTrack of signalPeerConnection
    herr,           \* how the last message of the handler ended
    delivered,      \* broker messages delivered so far
    ntracks,        \* relay tracks created so far
    ingest,         \* relay tracks whose ingest peer is alive
    pubcalls,       \* calls of c.Publish: a bag of (topic, track)
    published,      \* answers the broker acknowledged
    sessions,       \* the session registry
    spc,            \* position of each connection's handler
    cur,            \* msg of processMessage: the last event read
    value,          \* value loaded from the registry
    pending,        \* frames written by the viewer and not yet read
    ctxDone,        \* the connection's context is cancelled
    sock,           \* the web-socket: none, open, broken, closed
    out,            \* envelopes handed to wsjson.Write
    queue,          \* candidateChan
    qclosed,        \* which channels of candidateChan are closed
    peers           \* fan-out peers created by CreateSubscriber

pubVars == <<orderMatters, hpc, hmsg, hseq, htrack, herr, delivered, ntracks,
            ingest, pubcalls, published>>
subVars == <<spc, cur, value, pending, ctxDone, sock, out, queue, qclosed, peers>>
vars == <<orderMatters, hpc, hmsg, hseq, htrack, herr, delivered, ntracks,
          ingest, pubcalls, published, sessions, spc, cur, value, pending, ctxDone, sock, out, queue,
          qclosed, peers>>

Queues == {TrackSource_DRONE, TrackSource_MONITOR}

Init ==
    /\ orderMatters \in BOOLEAN
    /\ hpc = [h \in Handlers |-> "idle"]
    /\ hmsg = [h \in Handlers |-> Malformed]
    /\ hseq = [h \in Handlers |-> 0]
    /\ htrack = [h \in Handlers |-> NoTrack]
    /\ herr = [h \in Handlers |-> "none"]
    /\ delivered = 0
    /\ ntracks = 0
    /\ ingest = {}
    /\ pubcalls = EmptyBag
    /\ published = {}
    /\ sessions = {}
    /\ spc = [c \in Conns |-> "none"]
    /\ cur = [c \in Conns |-> ZeroMsg]
    /\ value = [c \in Conns |-> NoTrack]
    /\ pending = [c \in Conns |-> 0]
    /\ ctxDone = [c \in Conns |-> FALSE]
    /\ sock = [c \in Conns |-> "none"]
    /\ out = [c \in Conns |-> <<>>]
    /\ queue = [c \in Conns |-> [q \in Queues |-> <<>>]]
    /\ qclosed = [c \in Conns |-> [q \in Queues |-> FALSE]]
    /\ peers = <<>>

(***************************************************************************)
(* Publisher signaler: Publisher.handleMessage, one action per step.       *)
(***************************************************************************)
AfterUnmarshal(err) == IF err THEN "idle" ELSE "signal"

AfterSignalNoReturn(err) == "await_answer"

AfterSignal(err) == IF err THEN "idle" ELSE "await_answer"

AfterMarshal(err) == IF err THEN "idle" ELSE "publish_wait"

AfterPublishNoReturn(err) == "register"

AfterPublish(err) == IF err THEN "idle" ELSE "register"

\* Reset of a handler's locals when the handler function returns.
HandlerEnds(h, pc) ==
    /\ hmsg' = [hmsg EXCEPT ![h] = IF pc = "idle" THEN Malformed ELSE @]
    /\ hseq' = [hseq EXCEPT ![h] = IF pc = "idle" THEN 0 ELSE @]
    /\ htrack' = [htrack EXCEPT ![h] = IF pc = "idle" THEN NoTrack ELSE @]

\* The MQTT client invokes the handler with message m.
PubReceive(h, m) ==
    /\ hpc[h] = "idle"
    /\ delivered < MaxOffers
    /\ orderMatters => \A g \in Handlers : hpc[g] = "idle"
    /\ hpc' = [hpc EXCEPT ![h] = "unmarshal"]
    /\ hmsg' = [hmsg EXCEPT ![h] = m]
    /\ hseq' = [hseq EXCEPT ![h] = delivered + 1]
    /\ herr' = [herr EXCEPT ![h] = "none"]
    /\ delivered' = delivered + 1
    /\ UNCHANGED <<orderMatters, ingest, pubcalls, htrack, ntracks, published, sessions>>
    /\ UNCHANGED subVars

PubUnmarshal(h) ==
    /\ hpc[h] = "unmarshal"
    /\ LET err == ~hmsg[h].ok
           pc == AfterUnmarshal(err)
       IN /\ hpc' = [hpc EXCEPT ![h] = pc]
          /\ herr' = [herr EXCEPT ![h] = IF err THEN "decode" ELSE @]
          /\ HandlerEnds(h, pc)
    /\ UNCHANGED <<orderMatters, ingest, pubcalls, delivered, ntracks, published, sessions>>
    /\ UNCHANGED subVars

\* signalPeerConnection up to the return of CreatePublisher.
PubSignal(h) ==
    /\ hpc[h] = "signal"
    /\ \E res \in {"track", "negotiate", "none"} :
         LET err == res # "none"
             pc == AfterSignal(err)
         IN /\ hpc' = [hpc EXCEPT ![h] = pc]
            /\ herr' = [herr EXCEPT ![h] = res]
            /\ IF err
               THEN /\ HandlerEnds(h, pc)
                    /\ UNCHANGED <<ntracks, ingest>>
               ELSE /\ htrack' = [htrack EXCEPT ![h] = ntracks + 1]
                    /\ ntracks' = ntracks + 1
                    /\ ingest' = ingest \cup {ntracks + 1}
                    /\ UNCHANGED <<hmsg, hseq>>
    /\ UNCHANGED <<orderMatters, pubcalls, delivered, published, sessions>>
    /\ UNCHANGED subVars

\* The answer arrives on AnswerChan; proto.Marshal; c.Publish is called.
PubAnswer(h) ==
    /\ hpc[h] = "await_answer"
    /\ \E err \in BOOLEAN :
         LET pc == AfterMarshal(err)
         IN /\ hpc' = [hpc EXCEPT ![h] = pc]
            /\ herr' = [herr EXCEPT ![h] = IF err THEN "marshal" ELSE @]
            /\ pubcalls' =
                 IF err THEN pubcalls
                 ELSE pubcalls (+) SetToBag({[topic |-> AnswerTopic(hmsg[h].id, hmsg[h].ts),
                                              track |-> htrack[h]]})
            /\ HandlerEnds(h, pc)
    /\ UNCHANGED <<orderMatters, ingest, delivered, ntracks, published, sessions>>
    /\ UNCHANGED subVars

\* <-t.Done() returns; t.Error() is err.
PubPublishDone(h) ==
    /\ hpc[h] = "publish_wait"
    /\ \E err \in BOOLEAN :
         LET pc == AfterPublish(err)
         IN /\ hpc' = [hpc EXCEPT ![h] = pc]
            /\ herr' = [herr EXCEPT ![h] = IF err THEN "publish" ELSE @]
            /\ published' =
                 IF err THEN published
                 ELSE published \cup
                        {[topic |-> AnswerTopic(hmsg[h].id, hmsg[h].ts),
                          id |-> hmsg[h].id, ts |-> hmsg[h].ts,
                          track |-> htrack[h], seq |-> hseq[h]]}
            /\ HandlerEnds(h, pc)
    /\ UNCHANGED <<orderMatters, ingest, pubcalls, delivered, ntracks, sessions>>
    /\ UNCHANGED subVars

PubRegister(h) ==
    /\ hpc[h] = "register"
    /\ sessions' = registerSession(sessions, hmsg[h].id, hmsg[h].ts, htrack[h])
    /\ hpc' = [hpc EXCEPT ![h] = "idle"]
    /\ herr' = [herr EXCEPT ![h] = IF @ = "none" THEN "ok" ELSE @]
    /\ HandlerEnds(h, "idle")
    /\ UNCHANGED <<orderMatters, ingest, pubcalls, delivered, ntracks, published>>
    /\ UNCHANGED subVars

(***************************************************************************)
(* Subscriber signaler: Subscriber.handleSignal and processMessage.        *)
(***************************************************************************)
\* wsjson.Write succeeds on a live socket under a live context.
WriteOk(c) == sock[c] = "open" /\ ~ctxDone[c]

\* An envelope handed to wsjson.Write; ok tells whether the write succeeded.
Envelope(c, event, id, meta, code) ==
    [event |-> event, id |-> id, meta |-> meta, code |-> code, ok |-> WriteOk(c)]

replyErrNoMeta(c, id, meta, code) == Envelope(c, "error", id, NoMeta, code)

\* replyErr: the error envelope.
replyErr(c, id, meta, code) == Envelope(c, "error", id, meta, code)

\* The video-answer envelope of processMessage: Event and Data are set.
answerEnvelope(c, meta) == Envelope(c, "video-answer", "", meta, "")

candidateEnvelopeNilMeta(c, meta) == Envelope(c, "new-ice-candidate", "", NoMeta, "")

\* The envelope sendCandidate writes.
candidateEnvelope(c, meta) == Envelope(c, "new-ice-candidate", "", meta, "")

\* The channel a candidate event is pushed onto.
PushQueue(ts) ==
    IF ts = TrackSource_DRONE THEN TrackSource_DRONE ELSE TrackSource_MONITOR

ReturnClosesOneQueue(c) ==
    /\ spc' = [spc EXCEPT ![c] = "returned"]
    /\ qclosed' = [qclosed EXCEPT ![c][TrackSource_DRONE] = TRUE]
    /\ ctxDone' = [ctxDone EXCEPT ![c] = TRUE]
    /\ sock' = [sock EXCEPT ![c] = "closed"]
    /\ value' = [value EXCEPT ![c] = NoTrack]

\* processMessage returns: the deferred close of every candidateChan, then
\* handleSignal's deferred cancel() and c.Close(StatusNormalClosure), which
\* drops the frames that were not read.
Return(c) ==
    /\ spc' = [spc EXCEPT ![c] = "returned"]
    /\ qclosed' = [qclosed EXCEPT ![c] = [q \in Queues |-> TRUE]]
    /\ ctxDone' = [ctxDone EXCEPT ![c] = TRUE]
    /\ sock' = [sock EXCEPT ![c] = "closed"]
    /\ value' = [value EXCEPT ![c] = NoTrack]

\* replyErr followed by return.
ReplyAndReturn(c, id, meta, code) ==
    /\ out' = [out EXCEPT ![c] = Append(@, replyErr(c, id, meta, code))]
    /\ Return(c)

\* websocket.Accept.
Accept(c) ==
    /\ spc[c] = "none"
    /\ \E ok \in BOOLEAN :
         IF ok
         THEN /\ spc' = [spc EXCEPT ![c] = "read"]
              /\ sock' = [sock EXCEPT ![c] = "open"]
         ELSE /\ spc' = [spc EXCEPT ![c] = "refused"]
              /\ UNCHANGED sock
    /\ UNCHANGED <<cur, value, pending, ctxDone, out, queue, qclosed, peers>>
    /\ UNCHANGED <<sessions>>
    /\ UNCHANGED pubVars

\* The viewer writes one more frame on the socket, up to n unread frames.
ViewerSend(c, n) ==
    /\ sock[c] = "open"
    /\ pending[c] < n
    /\ pending' = [pending EXCEPT ![c] = @ + 1]
    /\ UNCHANGED <<spc, cur, value, ctxDone, sock, out, queue, qclosed, peers>>
    /\ UNCHANGED <<sessions>>
    /\ UNCHANGED pubVars

\* The transport dies (the viewer goes away, the network breaks).
SockBreak(c) ==
    /\ sock[c] = "open"
    /\ sock' = [sock EXCEPT ![c] = "broken"]
    /\ UNCHANGED <<spc, cur, value, pending, ctxDone, out, queue, qclosed, peers>>
    /\ UNCHANGED <<sessions>>
    /\ UNCHANGED pubVars

\* The request context is cancelled from outside the handler.
CtxCancel(c) ==
    /\ spc[c] \notin {"none", "refused", "returned"}
    /\ ~ctxDone[c]
    /\ ctxDone' = [ctxDone EXCEPT ![c] = TRUE]
    /\ UNCHANGED <<spc, cur, value, pending, sock, out, queue, qclosed, peers>>
    /\ UNCHANGED <<sessions>>
    /\ UNCHANGED pubVars

\* wsjson.Read fails: dead transport or cancelled context.
ReadFail(c) ==
    /\ spc[c] = "read"
    /\ ctxDone[c] \/ sock[c] # "open"
    /\ ReplyAndReturn(c, cur[c].id, NoMeta, "ReadMessage")
    /\ pending' = [pending EXCEPT ![c] = 0]
    /\ UNCHANGED <<cur, queue, peers>>
    /\ UNCHANGED <<sessions>>
    /\ UNCHANGED pubVars

BadMeta(m) == m.nil \/ m.id = <<>>

\* Where a decoded event goes: the switch on msg.Event up to the registry
\* lookup. "reply:<code>" stands for replyErr with that code and return.
Dispatch(f) ==
    CASE f.event = "garbage" -> "reply:ReadMessage"
      [] f.event \in {"video-offer", "new-ice-candidate"} /\ ~f.dataOk ->
           "reply:UnmarshalJSON"
      [] f.event \in {"video-offer", "new-ice-candidate"} /\ f.dataOk
           /\ BadMeta(f.meta) -> "reply:IncorrectMetadata"
      [] f.event = "video-offer" /\ f.dataOk /\ ~BadMeta(f.meta) -> "offer_lookup"
      [] f.event = "new-ice-candidate" /\ f.dataOk /\ ~BadMeta(f.meta) -> "cand_lookup"
      [] OTHER -> "select"

\* wsjson.Read returns the next frame; the event is decoded and validated.
Read(c, f) ==
    /\ spc[c] = "read"
    /\ ~ctxDone[c]
    /\ sock[c] = "open"
    /\ pending[c] > 0
    /\ LET d == Dispatch(f)
       IN CASE d = "reply:ReadMessage" ->
                 /\ ReplyAndReturn(c, cur[c].id, NoMeta, "ReadMessage")
                 /\ pending' = [pending EXCEPT ![c] = 0]
                 /\ UNCHANGED cur
            [] d = "reply:UnmarshalJSON" ->
                 /\ ReplyAndReturn(c, f.id, NoMeta, "UnmarshalJSON")
                 /\ pending' = [pending EXCEPT ![c] = 0]
                 /\ cur' = [cur EXCEPT ![c] = f]
            [] d = "reply:IncorrectMetadata" ->
                 /\ ReplyAndReturn(c, f.id, NoMeta, "IncorrectMetadata")
                 /\ pending' = [pending EXCEPT ![c] = 0]
                 /\ cur' = [cur EXCEPT ![c] = f]
            [] OTHER ->
                 /\ spc' = [spc EXCEPT ![c] = d]
                 /\ cur' = [cur EXCEPT ![c] = f]
                 /\ pending' = [pending EXCEPT ![c] = @ - 1]
                 /\ UNCHANGED <<value, ctxDone, sock, out, qclosed>>
    /\ UNCHANGED <<queue, peers>>
    /\ UNCHANGED <<sessions>>
    /\ UNCHANGED pubVars

\* video-offer: s.sessions.Load, webrtcx.New, the sdp is decoded.
OfferLookup(c) ==
    /\ spc[c] = "offer_lookup"
    /\ LET m == cur[c].meta
           k == SubSessionID(m.id, m.ts)
       IN IF ~Loaded(sessions, k)
          THEN /\ ReplyAndReturn(c, cur[c].id, m, "MetadataNotMatched")
               /\ pending' = [pending EXCEPT ![c] = 0]
               /\ UNCHANGED cur
          ELSE IF ~cur[c].bodyOk
          THEN /\ ReplyAndReturn(c, cur[c].id, m, "UnmarshalJSON")
               /\ pending' = [pending EXCEPT ![c] = 0]
               /\ UNCHANGED cur
          ELSE /\ value' = [value EXCEPT ![c] = Load(sessions, k)]
               /\ spc' = [spc EXCEPT ![c] = "create"]
               /\ UNCHANGED <<cur, pending, ctxDone, sock, out, qclosed>>
    /\ UNCHANGED <<queue, peers>>
    /\ sessions' = MapAfterLoad(sessions, SubSessionID(cur[c].meta.id, cur[c].meta.ts))
    /\ UNCHANGED pubVars

\* The peer engine takes the sdp from SignalChan (wcx.SignalChan <- &sdp
\* goes through) and wcx.CreateSubscriber(value) returns. The handler waits
\* here, whatever the context, until the engine does both.
CreateSubscriber(c) ==
    /\ spc[c] = "create"
    /\ \E err \in BOOLEAN :
         IF err
         THEN /\ ReplyAndReturn(c, cur[c].id, cur[c].meta, "FailedToCreateSubscriber")
              /\ pending' = [pending EXCEPT ![c] = 0]
              /\ UNCHANGED <<cur, peers>>
         ELSE /\ peers' = Append(peers, [conn |-> c, track |-> value[c],
                                         meta |-> cur[c].meta, state |-> "active",
                                         gathered |-> 0])
              /\ spc' = [spc EXCEPT ![c] = "answer"]
              /\ UNCHANGED <<cur, value, pending, ctxDone, sock, out, qclosed>>
    /\ UNCHANGED <<queue>>
    /\ UNCHANGED <<sessions>>
    /\ UNCHANGED pubVars

\* The answer arrives on SignalChan (answer := <-wcx.SignalChan), is encoded
\* and written to the viewer. The handler waits here, whatever the context,
\* until the engine sends the answer.
Answer(c) ==
    /\ spc[c] = "answer"
    /\ \E err \in BOOLEAN :
         IF err
         THEN /\ ReplyAndReturn(c, cur[c].id, cur[c].meta, "UnmarshalJSON")
              /\ pending' = [pending EXCEPT ![c] = 0]
              /\ UNCHANGED cur
         ELSE /\ out' = [out EXCEPT ![c] = Append(@, answerEnvelope(c, cur[c].meta))]
              /\ UNCHANGED cur
              /\ IF WriteOk(c)
                 THEN /\ spc' = [spc EXCEPT ![c] = "select"]
                      /\ value' = [value EXCEPT ![c] = NoTrack]
                      /\ UNCHANGED <<pending, ctxDone, sock, qclosed>>
                 ELSE /\ Return(c)
                      /\ pending' = [pending EXCEPT ![c] = 0]
    /\ UNCHANGED <<queue, peers>>
    /\ UNCHANGED <<sessions>>
    /\ UNCHANGED pubVars

\* new-ice-candidate: s.sessions.Load, the candidate is decoded.
CandLookup(c) ==
    /\ spc[c] = "cand_lookup"
    /\ LET m == cur[c].meta
           k == SubSessionID(m.id, m.ts)
       IN IF ~Loaded(sessions, k)
          THEN /\ ReplyAndReturn(c, cur[c].id, m, "MetadataNotMatched")
               /\ pending' = [pending EXCEPT ![c] = 0]
               /\ UNCHANGED cur
          ELSE IF ~cur[c].bodyOk
          THEN /\ ReplyAndReturn(c, cur[c].id, m, "UnmarshalJSON")
               /\ pending' = [pending EXCEPT ![c] = 0]
               /\ UNCHANGED cur
          ELSE /\ spc' = [spc EXCEPT ![c] = "cand_push"]
               /\ UNCHANGED <<cur, value, pending, ctxDone, sock, out, qclosed>>
    /\ UNCHANGED <<queue, peers>>
    /\ sessions' = MapAfterLoad(sessions, SubSessionID(cur[c].meta.id, cur[c].meta.ts))
    /\ UNCHANGED pubVars

\* candidateChan[...] <- candidateInit.Candidate: blocks while the buffer is full.
CandPush(c) ==
    /\ spc[c] = "cand_push"
    /\ LET q == PushQueue(cur[c].meta.ts)
       IN /\ Len(queue[c][q]) < CandidateChanCap
          /\ queue' = [queue EXCEPT ![c][q] = Append(@, cur[c].cand)]
    /\ spc' = [spc EXCEPT ![c] = "select"]
    /\ UNCHANGED <<cur, value, pending, ctxDone, sock, out, qclosed, peers>>
    /\ UNCHANGED <<sessions>>
    /\ UNCHANGED pubVars

\* select { case <-ctx.Done(): return }
Select(c) ==
    /\ spc[c] = "select"
    /\ ctxDone[c]
    /\ Return(c)
    /\ pending' = [pending EXCEPT ![c] = 0]
    /\ UNCHANGED <<cur, out, queue, peers>>
    /\ UNCHANGED <<sessions>>
    /\ UNCHANGED pubVars

(***************************************************************************)
(* The fan-out peer engine, as far as the signaler's closures reach it.    *)
(* A connection's handler handles one event and then waits in Select, so   *)
(* a connection that has a peer never pushes a candidate: the receive on   *)
(* recvCandidate's channel never has a value to take and is no action.     *)
(***************************************************************************)
\* The peer gathers a local candidate and calls sendCandidate.
PeerGather(i) ==
    /\ i \in DOMAIN peers
    /\ peers[i].state = "active"
    /\ peers[i].gathered < MaxGather
    /\ LET c == peers[i].conn
       IN out' = [out EXCEPT ![c] = Append(@, candidateEnvelope(c, peers[i].meta))]
    /\ peers' = [peers EXCEPT ![i].gathered = @ + 1]
    /\ UNCHANGED <<spc, cur, value, pending, ctxDone, sock, queue, qclosed>>
    /\ UNCHANGED <<sessions>>
    /\ UNCHANGED pubVars

\* The peer of a cancelled connection closes.
PeerClose(i) ==
    /\ i \in DOMAIN peers
    /\ peers[i].state = "active"
    /\ ctxDone[peers[i].conn]
    /\ peers' = [peers EXCEPT ![i].state = "closed"]
    /\ UNCHANGED <<spc, cur, value, pending, ctxDone, sock, out, queue, qclosed>>
    /\ UNCHANGED <<sessions>>
    /\ UNCHANGED pubVars

\* The ingest peer of relay track t fails on its own: ICE failure or the
\* edge's transport closes.
IngestFail(t) ==
    /\ t \in ingest
    /\ ingest' = ingest \ {t}
    /\ UNCHANGED <<orderMatters, hpc, hmsg, hseq, htrack, herr, delivered, ntracks,
                   pubcalls, published>>
    /\ UNCHANGED <<sessions>>
    /\ UNCHANGED subVars

(***************************************************************************)
(* The system.                                                             *)
(***************************************************************************)
PublisherStep(H, P) ==
    \E h \in H :
        \/ \E m \in P : PubReceive(h, m)
        \/ PubUnmarshal(h)
        \/ PubSignal(h)
        \/ PubAnswer(h)
        \/ PubPublishDone(h)
        \/ PubRegister(h)

SubscriberStep(C, F) ==
    \E c \in C :
        \/ Accept(c)
        \/ ReadFail(c)
        \/ \E f \in F : Read(c, f)
        \/ OfferLookup(c)
        \/ CreateSubscriber(c)
        \/ Answer(c)
        \/ CandLookup(c)
        \/ CandPush(c)
        \/ Select(c)

ViewerStep(C) ==
    \E c \in C :
        \/ ViewerSend(c, MaxFrames)
        \/ SockBreak(c)
        \/ CtxCancel(c)

PeerStep ==
    \E i \in DOMAIN peers :
        \/ PeerGather(i)
        \/ PeerClose(i)

\* The relay with one viewer connection and every input.
Next ==
    \/ PublisherStep(Handlers, Payloads)
    \/ SubscriberStep({1}, Frames)
    \/ ViewerStep({1})
    \/ PeerStep

Spec == Init /\ [][Next]_vars

\* One handler invocation at a time and one viewer connection.
NextOne ==
    \/ PublisherStep({1}, Payloads)
    \/ SubscriberStep({1}, Frames)
    \/ ViewerStep({1})
    \/ PeerStep

\* Viewers that send well-formed events for the drone track of device a.
FanoutMeta == [nil |-> FALSE, id |-> <<"a">>, ts |-> TrackSource_DRONE]
FanoutFrames ==
    [event : {"video-offer", "new-ice-candidate"}, id : EnvIds, dataOk : {TRUE},
     meta : {FanoutMeta}, bodyOk : {TRUE}, cand : {"c1"}]
FanoutPayloads == [ok : {TRUE}, id : DeviceIds, ts : {TrackSource_DRONE}]

\* Every viewer connection, with one handler invocation at a time.
NextFanout ==
    \/ PublisherStep({1}, FanoutPayloads)
    \/ SubscriberStep(Conns, FanoutFrames)
    \/ \E c \in Conns : ViewerSend(c, 1) \/ CtxCancel(c)
    \/ PeerStep

SpecFanout == Init /\ [][NextFanout]_vars

\* The goroutines of the handlers run whenever they can take a step; what the
\* broker, the viewers and the network do is not fair.
HandlerFairness ==
    /\ \A h \in Handlers :
         WF_vars(PubUnmarshal(h) \/ PubSignal(h) \/ PubAnswer(h)
                 \/ PubPublishDone(h) \/ PubRegister(h))
    /\ \A c \in Conns :
         WF_vars(ReadFail(c) \/ (\E f \in Frames : Read(c, f)) \/ OfferLookup(c)
                 \/ CreateSubscriber(c) \/ Answer(c) \/ CandLookup(c)
                 \/ CandPush(c) \/ Select(c))

FairSpec == Init /\ [][NextOne]_vars /\ HandlerFairness

\* Viewers that send one well-formed video-offer each, for either track of
\* device a.
GatherMetas == [nil : {FALSE}, id : DeviceIds, ts : PubTrackSources]
GatherFrames ==
    [event : {"video-offer"}, id : EnvIds, dataOk : {TRUE}, meta : GatherMetas,
     bodyOk : {TRUE}, cand : {""}]
GatherPayloads == [ok : {TRUE}, id : DeviceIds, ts : PubTrackSources]

\* Every viewer connection with its fan-out peer, one handler invocation at
\* a time.
NextGather ==
    \/ PublisherStep({1}, GatherPayloads)
    \/ \E c \in Conns :
         \/ Accept(c)
         \/ ReadFail(c)
         \/ \E f \in GatherFrames : Read(c, f)
         \/ OfferLookup(c)
         \/ CreateSubscriber(c)
         \/ Answer(c)
         \/ Select(c)
         \/ ViewerSend(c, 1)
         \/ CtxCancel(c)
    \/ PeerStep

SpecGather == Init /\ [][NextGather]_vars

\* The steps a handler takes on its own. Where it waits for the peer engine
\* (the offer hand-off, CreatePublisher and CreateSubscriber, the answer) or
\* for the broker's acknowledgment, it goes on when they let it: nothing in
\* the handlers bounds these waits.
SignalerFairness ==
    /\ \A h \in Handlers : WF_vars(PubUnmarshal(h) \/ PubRegister(h))
    /\ \A c \in Conns :
         WF_vars(ReadFail(c) \/ (\E f \in Frames : Read(c, f)) \/ OfferLookup(c)
                 \/ CandLookup(c) \/ CandPush(c) \/ Select(c))

FairSignalerSpec == Init /\ [][NextOne]_vars /\ SignalerFairness

\* One handler invocation and one viewer connection, with ingest peers that
\* may fail, under fair handlers. Whether an edge's transport ever fails is
\* not up to the relay.
NextIngest ==
    \/ NextOne
    \/ \E t \in 1..MaxOffers : IngestFail(t)

FairIngestSpec == Init /\ [][NextIngest]_vars /\ HandlerFairness

\* The peer engines run on their own: a peer whose connection is cancelled
\* gets to close.
PeerFairness == WF_vars(\E i \in DOMAIN peers : PeerClose(i))

\* One handler invocation and one viewer connection under fair handlers and
\* fair peer engines.
FairPeerSpec == Init /\ [][NextOne]_vars /\ HandlerFairness /\ PeerFairness

(***************************************************************************)
(* The session key over every legal pair: device ids are the non-empty     *)
(* strings of up to MaxIdLen characters over a letter and a digit, so that *)
(* an id can end in what strconv.Itoa prints.                              *)
(***************************************************************************)
MaxIdLen == 2
\* characters of a device id

IdChars == {"a", "1"}
KeyIds == UNION {[1..n -> IdChars] : n \in 1..MaxIdLen}
KeyPayloads == [ok : {TRUE}, id : KeyIds, ts : PubTrackSources]
KeyMetas == [nil : {FALSE}, id : KeyIds, ts : PubTrackSources]
KeyFrames ==
    [event : {"video-offer"}, id : EnvIds, dataOk : {TRUE}, meta : KeyMetas,
     bodyOk : {TRUE}, cand : {""}]
    \cup [event : {"new-ice-candidate"}, id : EnvIds, dataOk : {TRUE}, meta : KeyMetas,
          bodyOk : {TRUE}, cand : {"c1"}]

\* One handler invocation and one viewer, over every legal pair.
NextKey ==
    \/ PublisherStep({1}, KeyPayloads)
    \/ SubscriberStep({1}, KeyFrames)
    \/ ViewerSend(1, 1) \/ CtxCancel(1)
    \/ PeerStep

SpecKey == Init /\ [][NextKey]_vars

(***************************************************************************)
(* Properties.                                                             *)
(***************************************************************************)
EntriesFor(k) == {e \in sessions : e.key = k}

\* The handler that published the answer of p has returned.
Finished(p) == \A h \in Handlers : htrack[h] # p.track

Last(s) == s[Len(s)]

\* The handler of connection c takes a step.
Steps(c) == spc'[c] # spc[c]

\* The step appends exactly the error envelope with this code and meta.
RepliesErr(c, code, meta) ==
    /\ Len(out'[c]) = Len(out[c]) + 1
    /\ SubSeq(out'[c], 1, Len(out[c])) = out[c]
    /\ Last(out'[c]).event = "error"
    /\ Last(out'[c]).code = code
    /\ Last(out'[c]).meta = meta

HasPeer(c) == \E i \in DOMAIN peers : peers[i].conn = c

Live(c) == sock[c] = "open" /\ ~ctxDone[c]

\* C1: the registry holds at most one relay track per session key, and
\* exactly one under the key of every offer whose answer was published and
\* whose handler has finished.
C1_OneTrackPerKey ==
    /\ \A e \in sessions : Cardinality(EntriesFor(e.key)) = 1
    /\ \A p \in published :
         Finished(p) => Cardinality(EntriesFor(SubSessionID(p.id, p.ts))) = 1

\* Two offers for one key were processed successfully and one track is left.
C1_Witness ==
    \E p1, p2 \in published :
        /\ p1.track # p2.track
        /\ p1.id = p2.id /\ p1.ts = p2.ts
        /\ Finished(p1) /\ Finished(p2)
        /\ Cardinality(EntriesFor(SubSessionID(p1.id, p1.ts))) = 1

\* C2: a relay track is in the registry, or about to be written to it, only
\* when the answer of its offer has been published without error.
C2_PublishBeforeRegister ==
    /\ \A e \in sessions :
         \E p \in published : p.track = e.track /\ PubSessionID(p.id, p.ts) = e.key
    /\ \A h \in Handlers :
         hpc[h] = "register" => \E p \in published : p.track = htrack[h]

\* An offer is registered after its publish, while the publish of another
\* offer failed and left no entry.
C2_Witness ==
    /\ \E e \in sessions : \E p \in published : p.track = e.track
    /\ \E h \in Handlers : herr[h] = "publish"
    /\ Cardinality(sessions) = 1

PubFailures == {"decode", "track", "negotiate", "marshal", "publish"}

\* C3: a step in which the handling of a publisher message fails, and every
\* later step of that handling, leaves the registry as it is, and the handler
\* is back to take the next message.
C3_FailureLeavesRegistry ==
    [][\A h \in Handlers :
         (hpc'[h] # hpc[h] /\ herr'[h] \in PubFailures) =>
             /\ sessions' = sessions
             /\ hpc'[h] = "idle"]_vars

\* A message failed where the registry already held a track, and the
\* registry still holds it.
C3_Witness ==
    /\ \E h \in Handlers : hpc[h] = "idle" /\ herr[h] \in PubFailures
    /\ \E g \in Handlers : herr[g] = "ok"
    /\ sessions # {}

\* C4: a video-offer with a non-empty meta.id whose key misses in the
\* registry is answered with an error envelope of code MetadataNotMatched
\* carrying the viewer's meta, and creates no fan-out peer.
C4_MissingSessionReply ==
    [][\A c \in Conns :
         (spc[c] = "offer_lookup" /\ Steps(c)
          /\ EntriesFor(PubSessionID(cur[c].meta.id, cur[c].meta.ts)) = {}) =>
             /\ RepliesErr(c, "MetadataNotMatched", cur[c].meta)
             /\ peers' = peers
             /\ spc'[c] = "returned"]_vars

\* A viewer's offer for an unregistered key was answered with the error.
C4_Witness ==
    \E c \in Conns :
        /\ spc[c] = "returned"
        /\ cur[c].event = "video-offer"
        /\ out[c] # <<>>
        /\ Last(out[c]).code = "MetadataNotMatched"
        /\ Last(out[c]).meta = cur[c].meta
        /\ Last(out[c]).meta.id = <<"a">>
        /\ ~HasPeer(c)

\* C5: after a video-offer was answered on a connection, three further
\* frames written by the viewer (the trickled candidates) are read and
\* handled as candidate events while the connection lives.
C5_TrickleOnOneConnection ==
    \A c \in Conns :
        (spc[c] = "select" /\ HasPeer(c) /\ pending[c] >= 3 /\ Live(c))
            ~> (spc[c] \in {"cand_lookup", "cand_push"} \/ ~Live(c))

\* C6: a frame written on a live connection after an event was handled on
\* it (a second video-offer) is read by the handler.
C6_LaterOffersServed ==
    \A c \in Conns :
        (spc[c] = "select" /\ pending[c] >= 1 /\ Live(c))
            ~> (spc[c] = "read" \/ ~Live(c))

\* C7: the handler of a connection returns, and closes the socket, only
\* when the transport is dead or the context is cancelled.
C7_ReturnsOnlyOnTransportFailure ==
    [][\A c \in Conns :
         (spc[c] \notin {"none", "returned"} /\ spc'[c] = "returned") => ~Live(c)]_vars

\* C8 as stated: a new-ice-candidate on a connection that handled no
\* matching video-offer is answered with MetadataNotMatched and nothing is
\* pushed, whether or not the key is registered.
C8_CandidateBeforeOffer ==
    [][\A c \in Conns :
         (spc[c] = "cand_lookup" /\ Steps(c) /\ ~HasPeer(c)) =>
             /\ RepliesErr(c, "MetadataNotMatched", cur[c].meta)
             /\ spc'[c] = "returned"
             /\ queue' = queue]_vars

\* C8 amended: a new-ice-candidate on a connection that handled no matching
\* video-offer, for a key with no registry entry at lookup time, is answered
\* with MetadataNotMatched and nothing is pushed onto any queue.
C8_CandidateForMissingSession ==
    [][\A c \in Conns :
         (spc[c] = "cand_lookup" /\ Steps(c) /\ ~HasPeer(c)
          /\ EntriesFor(PubSessionID(cur[c].meta.id, cur[c].meta.ts)) = {}) =>
             /\ RepliesErr(c, "MetadataNotMatched", cur[c].meta)
             /\ spc'[c] = "returned"
             /\ queue' = queue]_vars

\* A candidate for an unregistered key was answered with the error and the
\* queues are empty.
C8_Witness ==
    \E c \in Conns :
        /\ spc[c] = "returned"
        /\ cur[c].event = "new-ice-candidate"
        /\ out[c] # <<>>
        /\ Last(out[c]).code = "MetadataNotMatched"
        /\ Last(out[c]).meta = cur[c].meta
        /\ \A q \in Queues : queue[c][q] = <<>>

\* The tracks whose answers were published for the pair of meta m by
\* handlers that have finished.
RegisteredTracks(m) ==
    {p.track : p \in {x \in published : Finished(x) /\ x.id = m.id /\ x.ts = m.ts}}

LookupPcs == {"offer_lookup", "cand_lookup"}

\* C10: a lookup of a key that a publisher has registered never misses, and
\* the value a video-offer lookup returns is a track registered for that key.
C10_LookupNeverMisses ==
    [][\A c \in Conns :
         (spc[c] \in LookupPcs /\ Steps(c) /\ RegisteredTracks(cur[c].meta) # {}) =>
             /\ ~RepliesErr(c, "MetadataNotMatched", cur[c].meta)
             /\ spc'[c] = "create" =>
                  \E p \in published :
                      /\ p.track = value'[c]
                      /\ p.id = cur[c].meta.id /\ p.ts = cur[c].meta.ts]_vars

\* A lookup returned the old track of a key and the key was replaced before
\* the peer was created.
C10_Witness ==
    \E c \in Conns :
        /\ spc[c] = "create"
        /\ value[c] # NoTrack
        /\ Load(sessions, SubSessionID(cur[c].meta.id, cur[c].meta.ts)) # value[c]

\* C9: a successful offer for a registered key makes its track the entry of
\* the key; a video-offer lookup returns the entry of that moment and its
\* peer is bound to the value it returned; no step rebinds or removes a peer,
\* and the registry write leaves every peer as it is.
C9_ReplacementKeepsOldPeers ==
    [][/\ \A h \in Handlers :
            (hpc[h] = "register" /\ hpc'[h] # "register") =>
                /\ LET k == SubSessionID(hmsg[h].id, hmsg[h].ts)
                   IN {e \in sessions' : e.key = k} = {[key |-> k, track |-> htrack[h]]}
                /\ peers' = peers
       /\ \A c \in Conns :
            /\ (spc[c] = "offer_lookup" /\ spc'[c] = "create") =>
                   EntriesFor(SubSessionID(cur[c].meta.id, cur[c].meta.ts)) =
                     {[key |-> SubSessionID(cur[c].meta.id, cur[c].meta.ts),
                       track |-> value'[c]]}
            /\ (spc[c] = "create" /\ spc'[c] = "answer") =>
                   /\ Len(peers') = Len(peers) + 1
                   /\ Last(peers').track = value[c]
                   /\ Last(peers').conn = c
       /\ \A i \in DOMAIN peers :
            /\ i \in DOMAIN peers'
            /\ peers'[i].track = peers[i].track
            /\ peers'[i].conn = peers[i].conn]_vars

\* A live peer is bound to the track a later offer replaced, and a peer
\* created after the replacement is bound to the new track.
C9_Witness ==
    \E i, j \in DOMAIN peers :
        /\ peers[i].meta = peers[j].meta
        /\ peers[i].track # peers[j].track
        /\ peers[i].state = "active" /\ ~ctxDone[peers[i].conn]
        /\ peers[j].state = "active"
        /\ Load(sessions, SubSessionID(peers[j].meta.id, peers[j].meta.ts)) = peers[j].track

\* The legal pairs the publisher has computed a key for.
PubPairs ==
    {<<p.id, p.ts>> : p \in published}
    \cup {<<hmsg[h].id, hmsg[h].ts>> : h \in {g \in Handlers : hmsg[g].ok}}

\* The legal pairs a subscriber handler has computed a key for.
SubPairs ==
    {<<cur[c].meta.id, cur[c].meta.ts>> :
        c \in {d \in Conns : cur[d].dataOk /\ ~BadMeta(cur[d].meta)
                              /\ cur[d].meta.ts \in PubTrackSources}}

\* C11: over legal pairs (non-empty id, track source DRONE or MONITOR) two
\* session keys are equal exactly when the ids and the track sources are
\* equal, whichever of publisher and subscriber computed them, and the
\* registry holds each registered pair under that key.
C11_KeyCollisionFree ==
    /\ \A a, b \in PubPairs \cup SubPairs :
         /\ (PubSessionID(a[1], a[2]) = PubSessionID(b[1], b[2])) <=> (a = b)
         /\ (PubSessionID(a[1], a[2]) = SubSessionID(b[1], b[2])) <=> (a = b)
         /\ (SubSessionID(a[1], a[2]) = SubSessionID(b[1], b[2])) <=> (a = b)
    /\ \A e \in sessions :
         \E p \in published :
             /\ e.track = p.track
             /\ e.key = SubSessionID(p.id, p.ts)
    /\ \A c \in Conns :
         spc[c] = "create" =>
             \E p \in published :
                 /\ p.track = value[c]
                 /\ <<p.id, p.ts>> = <<cur[c].meta.id, cur[c].meta.ts>>

\* Two pairs were registered of which one's id is the other's id followed by
\* a digit, and a viewer's lookup of one of them returned its own track.
C11_Witness ==
    \E p1, p2 \in published :
        /\ Len(p2.id) = Len(p1.id) + 1
        /\ SubSeq(p2.id, 1, Len(p1.id)) = p1.id
        /\ p2.id[Len(p2.id)] = "1"
        /\ Cardinality(sessions) = 2
        /\ \E c \in Conns :
               /\ spc[c] = "create"
               /\ cur[c].meta.id = p2.id
               /\ value[c] = p2.track

\* C12: no step of a subscriber handler, of its viewer or of its fan-out
\* peers (an event handled, an error reply, a candidate pushed, the return
\* and its teardown) adds, replaces or removes a registry entry.
C12_SubscribersLeaveRegistry ==
    [][(subVars' # subVars) => (sessions' = sessions)]_vars

\* A connection looked its key up, created a peer and returned, and the
\* registry still holds the entry of that key.
C12_Witness ==
    \E c \in Conns :
        /\ spc[c] = "returned"
        /\ HasPeer(c)
        /\ Loaded(sessions, SubSessionID(cur[c].meta.id, cur[c].meta.ts))

\* The Publish calls made with relay track t.
CallsWith(b, t) == {r \in BagToSet(b) : r.track = t}

\* Exactly one Publish call was made with track t, on the topic of (id, ts).
OneAnswerOn(b, t, id, ts) ==
    /\ CallsWith(b, t) =
         {[topic |-> AnswerTopicPrefix \o <<"/">> \o id \o <<"/">> \o Itoa(ts),
           track |-> t]}
    /\ \A r \in CallsWith(b, t) : CopiesIn(r, b) = 1

\* The handling of a message by handler h ends in this step.
HandlingEnds(h) == hpc[h] # "idle" /\ hpc'[h] = "idle"

\* Every Publish call carries the track of a negotiated offer.
CallsAreNegotiated(b) == \A r \in BagToSet(b) : r.track \in 1..ntracks

\* C13 as stated: when the handling of an offer whose negotiation succeeded
\* ends, exactly one answer was published for it, on the topic
\* prefix/id/track_source of that offer; the handling of an offer whose
\* decoding or negotiation failed publishes nothing.
C13_AnswerPerNegotiatedOffer ==
    [][\A h \in Handlers :
         HandlingEnds(h) =>
             /\ htrack[h] # NoTrack =>
                  OneAnswerOn(pubcalls', htrack[h], hmsg[h].id, hmsg[h].ts)
             /\ htrack[h] = NoTrack => pubcalls' = pubcalls
             /\ CallsAreNegotiated(pubcalls')]_vars

\* C13 amended: the same for an offer whose negotiation succeeded and whose
\* answer was encoded; an offer whose answer does not encode publishes
\* nothing.
C13_AnswerPerEncodedAnswer ==
    [][\A h \in Handlers :
         HandlingEnds(h) =>
             /\ (htrack[h] # NoTrack /\ herr'[h] # "marshal") =>
                  OneAnswerOn(pubcalls', htrack[h], hmsg[h].id, hmsg[h].ts)
             /\ (htrack[h] # NoTrack /\ herr'[h] = "marshal") =>
                  CallsWith(pubcalls', htrack[h]) = {}
             /\ htrack[h] = NoTrack => pubcalls' = pubcalls
             /\ CallsAreNegotiated(pubcalls')]_vars

\* Two offers were handled: one was answered with one Publish call on its
\* own topic, the negotiation of the other failed, and one call was made.
C13_Witness ==
    /\ \E h \in Handlers : hpc[h] = "idle" /\ herr[h] = "negotiate"
    /\ \E h \in Handlers : hpc[h] = "idle" /\ herr[h] = "ok"
    /\ BagCardinality(pubcalls) = 1
    /\ \E p \in published :
           OneAnswerOn(pubcalls, p.track, p.id, p.ts) /\ p.ts = TrackSource_MONITOR

PeersOf(c) == {i \in DOMAIN peers : peers[i].conn = c}

ActivePcs ==
    {"read", "offer_lookup", "create", "answer", "cand_lookup", "cand_push", "select"}

\* C15: once the context of a connection is cancelled, wherever its handler
\* is (reading, handing the offer over, waiting for the answer, pushing a
\* candidate, waiting after an event), the handler returns and the socket
\* is closed.
C15_CancelledHandlerReturns ==
    \A c \in Conns :
        (ctxDone[c] /\ spc[c] \in ActivePcs)
            ~> (spc[c] = "returned" /\ sock[c] = "closed")

\* C16: a publisher handler waiting for the peer engine (offer hand-off,
\* CreatePublisher, the answer) and a subscriber handler waiting for it
\* (offer hand-off, CreateSubscriber, the answer) get out of the wait and
\* finish the event.
C16_WaitsAreBounded ==
    /\ \A h \in Handlers :
         (hpc[h] \in {"signal", "await_answer"}) ~> (hpc[h] = "idle")
    /\ \A c \in Conns :
         (spc[c] \in {"create", "answer"}) ~> (spc[c] \in {"select", "returned"})

\* Where a publisher handler waits for the peer engine or for the broker.
PubWaits == {"signal", "await_answer", "publish_wait"}

\* Where a subscriber handler waits for the peer engine.
SubWaits == {"create", "answer"}

\* C17: while a publisher handler waits in negotiation or for the publish
\* acknowledgment, an offer for another session key can be taken by an idle
\* handler and every step a handler takes on its own stays possible; the
\* same for the handler of a connection while another connection's handler
\* waits for its peer engine.
C17_BlockedPeerBlocksNoOther ==
    /\ \A h, g \in Handlers :
         (h # g /\ hpc[h] \in PubWaits /\ hpc[g] = "idle" /\ delivered < MaxOffers) =>
             ENABLED (\E m \in Payloads :
                         /\ m.ok
                         /\ <<m.id, m.ts>> # <<hmsg[h].id, hmsg[h].ts>>
                         /\ PubReceive(g, m))
    /\ \A g \in Handlers :
         /\ hpc[g] = "unmarshal" => ENABLED PubUnmarshal(g)
         /\ hpc[g] = "register" => ENABLED PubRegister(g)
    /\ \A d \in Conns :
         /\ spc[d] = "offer_lookup" => ENABLED OfferLookup(d)
         /\ spc[d] = "cand_lookup" => ENABLED CandLookup(d)

\* C18: when two offers for one session key were delivered one after the
\* other and both were answered and registered, the registry holds the relay
\* track of the offer delivered later.
C18_SameKeyInDeliveryOrder ==
    (\A h \in Handlers : hpc[h] = "idle") =>
        \A p1, p2 \in published :
            (p1.id = p2.id /\ p1.ts = p2.ts /\ p1.seq < p2.seq) =>
                Load(sessions, PubSessionID(p2.id, p2.ts)) = p2.track

\* The relay track t was registered by a finished handler and its key now
\* holds another track.
Replaced(t) ==
    \E p \in published :
        /\ p.track = t
        /\ Finished(p)
        /\ Loaded(sessions, PubSessionID(p.id, p.ts))
        /\ Load(sessions, PubSessionID(p.id, p.ts)) # t

\* C19: once a successful offer has replaced the registry entry of a relay
\* track, the ingest peer that writes the replaced track gets closed.
C19_ReplacedIngestTornDown ==
    \A t \in 1..MaxOffers :
        (Replaced(t) /\ t \in ingest) ~> (t \notin ingest)

\* The frame is an offer or a candidate event whose meta is missing, has an
\* empty id or names a track source that is neither DRONE nor MONITOR.
IncorrectMeta(f) ==
    /\ f.event \in {"video-offer", "new-ice-candidate"}
    /\ f.dataOk
    /\ \/ BadMeta(f.meta)
       \/ f.meta.ts \notin {TrackSource_DRONE, TrackSource_MONITOR}

\* C20: the step in which the handler reads an offer or a candidate event
\* with incorrect metadata replies with an error envelope of code
\* IncorrectMetadata and returns without a registry lookup, and creates no
\* peer and pushes no candidate.
C20_IncorrectMetadataRejected ==
    [][\A c \in Conns :
         (spc[c] = "read" /\ cur'[c] # cur[c] /\ IncorrectMeta(cur'[c])) =>
             /\ Len(out'[c]) = Len(out[c]) + 1
             /\ Last(out'[c]).event = "error"
             /\ Last(out'[c]).code = "IncorrectMetadata"
             /\ spc'[c] = "returned"
             /\ peers' = peers
             /\ queue' = queue]_vars

\* The envelopes of these events answer the event the handler read.
ReplyEvents == {"video-answer", "error"}

\* C21: every video-answer envelope and every error envelope the relay
\* hands to the socket of a connection in response to the viewer's event
\* carries the id of that event.
C21_EnvelopeIdEchoed ==
    \A c \in Conns :
        cur[c].event \in {"video-offer", "new-ice-candidate"} =>
            \A i \in DOMAIN out[c] :
                out[c][i].event \in ReplyEvents => out[c][i].id = cur[c].id

\* Peer i hands a locally gathered candidate to sendCandidate in this step.
Gathers(i) == i \in DOMAIN peers' /\ peers'[i].gathered = peers[i].gathered + 1

EnvelopesOf(c, ev) == {i \in DOMAIN out[c] : out[c][i].event = ev}

TracksInFlight ==
    {htrack[h] : h \in {g \in Handlers : hpc[g] \in PubWaits \cup {"register"}}}

\* C23: every relay track a fan-out peer is bound to, or that a handler has
\* loaded for binding, belongs to an offer of the same id and track source
\* that was negotiated and whose answer was published without error; no
\* peer is bound to the track of an offer still being negotiated or
\* published, or of one that failed.
C23_PeersBoundToPublishedTracks ==
    /\ \A i \in DOMAIN peers :
         /\ \E p \in published :
                /\ p.track = peers[i].track
                /\ p.id = peers[i].meta.id
                /\ p.ts = peers[i].meta.ts
         /\ peers[i].track \notin TracksInFlight
    /\ \A c \in Conns :
         value[c] # NoTrack =>
             /\ \E p \in published : p.track = value[c]
             /\ value[c] \notin TracksInFlight

\* A peer is bound to the track of a published offer while a later offer
\* for the same key created a track and failed at its publish.
C23_Witness ==
    /\ \E i \in DOMAIN peers : \E p \in published : p.track = peers[i].track
    /\ ntracks = 2
    /\ Cardinality(published) = 1
    /\ \E h \in Handlers : hpc[h] = "idle" /\ herr[h] = "publish"
    /\ \A e \in sessions : \E p \in published : e.track = p.track

====
